---- MODULE Spec2Model ----
(***************************************************************************)
(* Line classification helpers of src/common/Utils.ts (class Utils).       *)
(* A JavaScript string is a sequence of one-character strings; every       *)
(* function of Utils is an operator that computes what the TypeScript      *)
(* computes, regular expressions included.  The library is stateless: a    *)
(* state is one call, its function, its arguments (with the ambient        *)
(* ApexDoc.config.scope), whether it has returned, and its result.         *)
(***************************************************************************)
EXTENDS Integers, Sequences, FiniteSets, TLC

VARIABLES op, pc, line, idx, scope, cModel, result

vars == <<op, pc, line, idx, scope, cModel, result>>

-----------------------------------------------------------------------------
(* Bounds of the model *)

\* longest line enumerated exhaustively for stripAnnotations
MaxLineLen == 4

\* longest string enumerated exhaustively for previousWord
MaxWordLen == 4

\* longest scope configuration
MaxScopes == 2

\* number of leading annotations put in front of a declaration, beyond
\* which only the lines around the iteration cap are enumerated
MaxAnnotations == 2

-----------------------------------------------------------------------------
(* Characters and JavaScript string primitives *)

UpperLetters == <<"A", "B", "C", "D", "E", "F", "G", "H", "I", "J", "K", "L", "M", "N", "O", "P", "Q", "R", "S", "T", "U", "V", "W", "X", "Y", "Z">>

LowerLetters == <<"a", "b", "c", "d", "e", "f", "g", "h", "i", "j", "k", "l", "m", "n", "o", "p", "q", "r", "s", "t", "u", "v", "w", "x", "y", "z">>

Digits == <<"0", "1", "2", "3", "4", "5", "6", "7", "8", "9">>

Range(s) == {s[i] : i \in 1..Len(s)}

WordChars == Range(UpperLetters) \cup Range(LowerLetters) \cup Range(Digits) \cup {"_"}

\* \w of a JavaScript regular expression
IsWordChar(c) == c \in WordChars

\* \s of a JavaScript regular expression, and what String.prototype.trim removes
IsSpace(c) == c \in {" ", "\t"}

\* [\w=.*''/\s] : the characters allowed in an annotation's argument list
IsArgChar(c) == IsWordChar(c) \/ IsSpace(c) \/ c \in {"=", ".", "*", "'", "/"}

\* membership in a character class of the regular expressions: \w, \s
\* or the argument characters
InClass(cls, c) ==
    CASE cls = "w" -> IsWordChar(c)
      [] cls = "s" -> IsSpace(c)
      [] cls = "arg" -> IsArgChar(c)

\* first position from i on (1-based) whose character is not in the class,
\* Len(s) + 1 when there is none: the end of a greedy run
RECURSIVE RunEnd(_, _, _)
RunEnd(s, i, cls) ==
    IF i > Len(s) \/ ~InClass(cls, s[i]) THEN i ELSE RunEnd(s, i + 1, cls)

\* last position up to i whose character is not white space, 0 when none
RECURSIVE LastNonSpace(_, _)
LastNonSpace(s, i) ==
    IF i < 1 \/ ~IsSpace(s[i]) THEN i ELSE LastNonSpace(s, i - 1)

\* first position of character c from i on, 0 when there is none
RECURSIVE IndexOfChar(_, _, _)
IndexOfChar(s, c, i) ==
    IF i > Len(s) THEN 0 ELSE IF s[i] = c THEN i ELSE IndexOfChar(s, c, i + 1)

LowerChar(c) ==
    IF c \in Range(UpperLetters)
    THEN LowerLetters[CHOOSE i \in 1..Len(UpperLetters) : UpperLetters[i] = c]
    ELSE c

toLowerCase(s) == [i \in 1..Len(s) |-> LowerChar(s[i])]

trim(s) == SubSeq(s, RunEnd(s, 1, "s"), LastNonSpace(s, Len(s)))

startsWith(s, p) == Len(p) <= Len(s) /\ SubSeq(s, 1, Len(p)) = p

includes(s, p) == \E i \in 1..(Len(s) - Len(p) + 1) : SubSeq(s, i, i + Len(p) - 1) = p

\* charAt with a 0-based index: "" outside the string
charAt(s, i) == IF i >= 0 /\ i < Len(s) THEN s[i + 1] ELSE ""

\* String.prototype.substring with 0-based indices: both arguments are
\* clamped to 0..length and swapped when the first exceeds the second
substring(s, a, b) ==
    LET clamp(x) == IF x < 0 THEN 0 ELSE IF x > Len(s) THEN Len(s) ELSE x
        lo == IF clamp(a) <= clamp(b) THEN clamp(a) ELSE clamp(b)
        hi == IF clamp(a) <= clamp(b) THEN clamp(b) ELSE clamp(a)
    IN  SubSeq(s, lo + 1, hi)

\* String.prototype.split('.') : the segments between the dots
RECURSIVE split(_)
split(s) ==
    LET dot == IndexOfChar(s, ".", 1)
    IN  IF dot = 0 THEN <<s>>
        ELSE <<SubSeq(s, 1, dot - 1)>> \o split(SubSeq(s, dot + 1, Len(s)))

\* \b between positions i-1 and i (1-based): exactly one side is a word character
WordBoundary(s, i) ==
    LET before == i - 1 >= 1 /\ i - 1 <= Len(s) /\ IsWordChar(s[i - 1])
        after  == i >= 1 /\ i <= Len(s) /\ IsWordChar(s[i])
    IN  before # after

\* the text w stands in s at position i (1-based)
At(s, i, w) == i >= 1 /\ i + Len(w) - 1 <= Len(s) /\ SubSeq(s, i, i + Len(w) - 1) = w

-----------------------------------------------------------------------------
(* Utils *)

PRIVATE == <<"p", "r", "i", "v", "a", "t", "e">>

TEST_METHOD == <<"t", "e", "s", "t", "m", "e", "t", "h", "o", "d">>

COLLECTIONS == << <<"l", "i", "s", "t">>, <<"s", "e", "t">>, <<"m", "a", "p">> >>

KEYWORDS == << <<"a", "b", "s", "t", "r", "a", "c", "t">>, <<"f", "i", "n", "a", "l">>, <<"v", "i", "r", "t", "u", "a", "l">>, <<"o", "v", "e", "r", "r", "i", "d", "e">>, <<"v", "o", "i", "d">>, <<"b", "l", "o", "b">>,
               <<"b", "o", "o", "l", "e", "a", "n">>, <<"d", "a", "t", "e">>, <<"d", "a", "t", "e", "t", "i", "m", "e">>, <<"d", "e", "c", "i", "m", "a", "l">>, <<"d", "o", "u", "b", "l", "e">>, <<"i", "d">>,
               <<"i", "n", "t", "e", "g", "e", "r">>, <<"l", "o", "n", "g">>, <<"o", "b", "j", "e", "c", "t">>, <<"s", "t", "r", "i", "n", "g">>, <<"t", "i", "m", "e">> >>

\* ApexDoc.ENUM, ApexDoc.CLASS, ApexDoc.INTERFACE
ENUM == <<"e", "n", "u", "m">>

CLASS == <<"c", "l", "a", "s", "s">>

INTERFACE == <<"i", "n", "t", "e", "r", "f", "a", "c", "e">>

\* last taking the first element whatever the length
lastTakesFirst(arr) == arr[1]

\* last = arr.length > 1 ? arr[arr.length - 1] : arr[0]
last(arr) == IF Len(arr) > 1 THEN arr[Len(arr)] ELSE arr[1]

\* /.*\bclass\b.*/.test(lower) || /\s?\binterface\s/i.test(lower)
isClassOrInterface(l) ==
    LET lower == toLowerCase(l)
    IN  \/ \E i \in 1..Len(lower) :
              /\ At(lower, i, CLASS)
              /\ WordBoundary(lower, i)
              /\ WordBoundary(lower, i + Len(CLASS))
        \/ \E i \in 1..Len(lower) :
              /\ At(lower, i, INTERFACE)
              /\ WordBoundary(lower, i)
              /\ i + Len(INTERFACE) <= Len(lower)
              /\ IsSpace(lower[i + Len(INTERFACE)])

\* /@\w+\s*(\([\w=.*''/\s]+\))?/ matches at position p (1-based)
AnnotationAt(s, p) == p + 1 <= Len(s) /\ s[p] = "@" /\ IsWordChar(s[p + 1])

\* first position after the match of the annotation pattern at p: the
\* name, the white space after it and, when it follows immediately, a
\* parenthesized argument list of one or more argument characters
AnnotationEnd(s, p) ==
    LET nameEnd  == RunEnd(s, p + 1, "w")
        spaceEnd == RunEnd(s, nameEnd, "s")
        argsEnd  == RunEnd(s, spaceEnd + 1, "arg")
    IN  IF /\ spaceEnd <= Len(s)
           /\ s[spaceEnd] = "("
           /\ argsEnd > spaceEnd + 1
           /\ argsEnd <= Len(s)
           /\ s[argsEnd] = ")"
        THEN argsEnd + 1
        ELSE spaceEnd

\* s.replace(/@\w+\s*(\([\w=.*''/\s]+\))?/, '') : the leftmost match, which
\* the pattern does not anchor at the start, is removed
\* leftmost position from p on where the annotation pattern matches, 0 when none
RECURSIVE FirstAnnotation(_, _)
FirstAnnotation(s, p) ==
    IF p > Len(s) THEN 0
    ELSE IF AnnotationAt(s, p) THEN p ELSE FirstAnnotation(s, p + 1)

replaceAnnotation(s) ==
    LET p == FirstAnnotation(s, 1)
    IN  IF p = 0 THEN s
        ELSE SubSeq(s, 1, p - 1) \o SubSeq(s, AnnotationEnd(s, p), Len(s))

\* the iteration cap of stripAnnotations
StripCap == 100

\* the while loop of stripAnnotations run for at most n passes: a pass is
\* made while the line is not empty and its trimmed text starts with '@'.
\* The passes are split in halves, which keeps the evaluation shallow
RECURSIVE stripLoop(_, _)
stripLoop(l, n) ==
    IF n = 0 \/ ~(l # <<>> /\ startsWith(trim(l), <<"@">>)) THEN l
    ELSE IF n = 1 THEN replaceAnnotation(trim(l))
    ELSE stripLoop(stripLoop(l, n \div 2), n - (n \div 2))

\* i counts from 0 and the loop breaks, after the replacement, once
\* i >= 100: at most StripCap + 1 passes
stripAnnotations(l) == stripLoop(l, StripCap + 1)

\* /^(global\s+|public\s+|private\s+)?enum\b.*/ on a line
EnumPattern(l) ==
    LET enumAt(i) == At(l, i, ENUM) /\ WordBoundary(l, i + Len(ENUM))
        modified(m) ==
            /\ startsWith(l, m)
            /\ RunEnd(l, Len(m) + 1, "s") > Len(m) + 1
            /\ enumAt(RunEnd(l, Len(m) + 1, "s"))
    IN  enumAt(1) \/ modified(<<"g", "l", "o", "b", "a", "l">>) \/ modified(<<"p", "u", "b", "l", "i", "c">>) \/ modified(<<"p", "r", "i", "v", "a", "t", "e">>)

isEnum(l) == EnumPattern(stripAnnotations(l))

\* the result of getScope: a scope, or undefined (the function falls off its end)
Some(v) == [defined |-> TRUE, value |-> v]

Undefined == [defined |-> FALSE, value |-> <<>>]

\* line = this.stripAnnotations(line).toLowerCase().trim()
normalize(l) == trim(toLowerCase(stripAnnotations(l)))

\* the loop of getScope comparing the scope without the space after it
RECURSIVE scopeLoopNoBoundary(_, _, _)
scopeLoopNoBoundary(l, config, k) ==
    IF k > Len(config) THEN [returned |-> FALSE, value |-> <<>>, line |-> l]
    ELSE LET l2 == normalize(l)
             sc == toLowerCase(config[k])
         IN  IF startsWith(l2, sc)
             THEN [returned |-> TRUE, value |-> sc, line |-> l2]
             ELSE IF sc = TEST_METHOD /\ startsWith(l2, <<"s", "t", "a", "t", "i", "c", " ">> \o TEST_METHOD \o <<" ">>)
             THEN [returned |-> TRUE, value |-> sc, line |-> l2]
             ELSE scopeLoopNoBoundary(l2, config, k + 1)

\* the for loop of getScope over ApexDoc.config.scope, from its k-th
\* element on: the line is normalized again in every iteration; the loop
\* returns a scope or ends with the line as it then stands
RECURSIVE scopeLoop(_, _, _)
scopeLoop(l, config, k) ==
    IF k > Len(config) THEN [returned |-> FALSE, value |-> <<>>, line |-> l]
    ELSE LET l2 == normalize(l)
             sc == toLowerCase(config[k])
         IN  IF startsWith(l2, sc \o <<" ">>)
             THEN [returned |-> TRUE, value |-> sc, line |-> l2]
             ELSE IF sc = TEST_METHOD /\ startsWith(l2, <<"s", "t", "a", "t", "i", "c", " ">> \o TEST_METHOD \o <<" ">>)
             THEN [returned |-> TRUE, value |-> sc, line |-> l2]
             ELSE scopeLoop(l2, config, k + 1)

\* the collection pattern with '<.*>' for '<.+>'
CollectionPatternEmptyArgs(l, collection) ==
    /\ startsWith(l, collection \o <<"<">>)
    /\ \E j \in (Len(collection) + 2)..(Len(l) - 1) : l[j] = ">" /\ IsSpace(l[j + 1])

\* new RegExp('^' + collection + '<.+>\\s.*').test(line)
CollectionPattern(l, collection) ==
    /\ startsWith(l, collection \o <<"<">>)
    /\ \E j \in (Len(collection) + 3)..(Len(l) - 1) : l[j] = ">" /\ IsSpace(l[j + 1])

\* the implicit-private block without the test that 'private' is configured
implicitPrivateUngated(l, config) ==
    IF startsWith(l, <<"s", "t", "a", "t", "i", "c", " ">>) /\ ~includes(l, <<" ">> \o TEST_METHOD \o <<" ">>)
    THEN Some(PRIVATE)
    ELSE IF \E k \in 1..Len(KEYWORDS) :
               startsWith(l, KEYWORDS[k] \o <<" ">>) /\ includes(l, <<"(">>)
    THEN Some(PRIVATE)
    ELSE IF \E k \in 1..Len(COLLECTIONS) :
               CollectionPattern(l, COLLECTIONS[k]) /\ includes(l, <<"(">>)
    THEN Some(PRIVATE)
    ELSE Undefined

\* the implicit-private block of getScope, on the line the loop left
implicitPrivate(l, config) ==
    IF \E k \in 1..Len(config) : config[k] = PRIVATE
    THEN IF startsWith(l, <<"s", "t", "a", "t", "i", "c", " ">>) /\ ~includes(l, <<" ">> \o TEST_METHOD \o <<" ">>)
         THEN Some(PRIVATE)
         ELSE IF \E k \in 1..Len(KEYWORDS) :
                    startsWith(l, KEYWORDS[k] \o <<" ">>) /\ includes(l, <<"(">>)
         THEN Some(PRIVATE)
         ELSE IF \E k \in 1..Len(COLLECTIONS) :
                    CollectionPattern(l, COLLECTIONS[k]) /\ includes(l, <<"(">>)
         THEN Some(PRIVATE)
         ELSE Undefined
    ELSE Undefined

getScope(l, config) ==
    LET r == scopeLoop(l, config, 1)
    IN  IF r.returned THEN Some(r.value) ELSE implicitPrivate(r.line, config)

\* the optional ClassModel argument of shouldSkipLine
NoModel == [present |-> FALSE, name |-> <<>>, isInterface |-> FALSE]

ClassModel(name, isInterface) == [present |-> TRUE, name |-> name, isInterface |-> isInterface]

\* new RegExp('\\b' + className + '\\s*\\(').test(line)
ConstructorPattern(l, className) ==
    \E i \in 1..(Len(l) + 1) :
        /\ WordBoundary(l, i)
        /\ At(l, i, className)
        /\ LET e == RunEnd(l, i + Len(className), "s")
           IN  e <= Len(l) /\ l[e] = "("

\* shouldSkipLine without the test for a line starting with 'class '
shouldSkipLineNoClass(l, cm, config) ==
    LET classNameParts == IF cm.present THEN split(cm.name) ELSE << <<>> >>
        className == last(classNameParts)
        sc == getScope(l, config)
    IN  IF /\ ~(sc.defined /\ sc.value # <<>>)
           /\ ~startsWith(toLowerCase(l), ENUM \o <<" ">>)
           /\ ~startsWith(toLowerCase(l), INTERFACE \o <<" ">>)
           /\ ~(cm.present /\ ConstructorPattern(l, className))
           /\ ~(cm.present /\ cm.isInterface /\ includes(l, <<"(">>))
        THEN TRUE
        ELSE FALSE

shouldSkipLine(l, cm, config) ==
    LET classNameParts == IF cm.present THEN split(cm.name) ELSE << <<>> >>
        className == last(classNameParts)
        sc == getScope(l, config)
    IN  IF /\ ~(sc.defined /\ sc.value # <<>>)
           /\ ~startsWith(toLowerCase(l), ENUM \o <<" ">>)
           /\ ~startsWith(toLowerCase(l), CLASS \o <<" ">>)
           /\ ~startsWith(toLowerCase(l), INTERFACE \o <<" ">>)
           /\ ~(cm.present /\ ConstructorPattern(l, className))
           /\ ~(cm.present /\ cm.isInterface /\ includes(l, <<"(">>))
        THEN TRUE
        ELSE FALSE

\* the for loop of previousWord: idxStart counts down while it is > 0;
\* yields the values of idxStart and idxEnd when the loop is left
RECURSIVE previousWordLoop(_, _, _)
previousWordLoop(str, idxStart, idxEnd) ==
    IF idxStart > 0
    THEN IF idxEnd = 0
         THEN IF charAt(str, idxStart) = " "
              THEN previousWordLoop(str, idxStart - 1, idxEnd)
              ELSE previousWordLoop(str, idxStart - 1, idxStart + 1)
         ELSE IF charAt(str, idxStart) = " "
              THEN <<idxStart + 1, idxEnd>>
              ELSE previousWordLoop(str, idxStart - 1, idxEnd)
    ELSE <<idxStart, idxEnd>>

\* previousWord scanning from searchIdx instead of searchIdx - 1
previousWordFromIndex(str, searchIdx) ==
    IF str = <<>> THEN <<>>
    ELSE IF searchIdx >= Len(str) THEN <<>>
    ELSE LET r == previousWordLoop(str, searchIdx, 0)
         IN  substring(str, r[1], r[2])

previousWord(str, searchIdx) ==
    IF str = <<>> THEN <<>>
    ELSE IF searchIdx >= Len(str) THEN <<>>
    ELSE LET r == previousWordLoop(str, searchIdx - 1, 0)
         IN  substring(str, r[1], r[2])

-----------------------------------------------------------------------------
(* The inputs of the calls *)

\* all strings over an alphabet up to a length
Strings(alphabet, n) == UNION {[1..k -> alphabet] : k \in 0..n}

\* s repeated n times
Repeat(s, n) == [i \in 1..(n * Len(s)) |-> s[((i - 1) % Len(s)) + 1]]

\* concatenations of up to n elements of a set of strings
RECURSIVE Concats(_, _)
Concats(S, n) ==
    IF n = 0 THEN {<<>>}
    ELSE Concats(S, n - 1) \cup {a \o b : a \in S, b \in Concats(S, n - 1)}

\* well-formed leading annotations, without and with an argument list
AnnotationTokens == { <<"@", "i", "s", "T", "e", "s", "t", " ">>, <<"@", "D", "e", "p", "(", "'", "x", "'", ")", " ">> }

AnnotationPrefixes == Concats(AnnotationTokens, MaxAnnotations)

\* lines with more leading annotations than one call removes
CapPrefixes == { Repeat(<<"@", "a", " ">>, n) : n \in {StripCap + 1, StripCap + 2} }

Heads == { <<>>, <<"p", "u", "b", "l", "i", "c", " ">>, <<"P", "u", "b", "l", "i", "c", " ">>, <<"p", "r", "i", "v", "a", "t", "e", " ">>, <<"g", "l", "o", "b", "a", "l", " ">>, <<"s", "t", "a", "t", "i", "c", " ">>,
           <<"s", "t", "a", "t", "i", "c", " ", "t", "e", "s", "t", "m", "e", "t", "h", "o", "d", " ">>, <<"t", "e", "s", "t", "m", "e", "t", "h", "o", "d", " ">>, <<"p", "u", "b", "l", "i", "c", "l", "y", " ">>, <<"p", "r", "i", "v", "a", "t", "e", "X", " ">>,
           <<"p", "u", "b", "l", "i", "c", "\t">>, <<"v", "o", "i", "d", " ">>, <<"S", "t", "r", "i", "n", "g", " ">>, <<"l", "i", "s", "t", "<", "i", "d", ">", " ">>, <<"s", "e", "t", "<", ">", " ">> }

Tails == { <<>>, <<"c", "l", "a", "s", "s", " ", "F", "o", "o", " ", "{">>, <<"e", "n", "u", "m", " ", "C", "o", "l", "o", "r", " ", "{", " ", "R", "E", "D", ",", " ", "B", "L", "U", "E", " ", "}">>, <<"i", "n", "t", "e", "r", "f", "a", "c", "e", " ", "B", "a", "r", " ", "{">>,
           <<"F", "o", "o", "(", "I", "n", "t", "e", "g", "e", "r", " ", "x", ")", " ", "{">>, <<"c", "a", "l", "c", "u", "l", "a", "t", "e", "(", ")">>, <<"d", "e", "s", "c", "r", "i", "p", "t", "i", "o", "n">>,
           <<"E", "n", "u", "m", "e", "r", "a", "t", "o", "r", " ", "g", "e", "t", "E", "n", "u", "m", "(", ")">> }

DeclarationLines == { h \o t : h \in Heads, t \in Tails }

\* declarations with leading annotations, and all of them without
AnnotatedLines ==
    DeclarationLines \cup
    { a \o h \o t : a \in AnnotationPrefixes,
                    h \in { <<>>, <<"p", "u", "b", "l", "i", "c", " ">>, <<"p", "r", "i", "v", "a", "t", "e", " ">>, <<"s", "t", "a", "t", "i", "c", " ">> },
                    t \in { <<"e", "n", "u", "m", " ", "C", "o", "l", "o", "r", " ", "{", " ", "R", "E", "D", ",", " ", "B", "L", "U", "E", " ", "}">>, <<"c", "l", "a", "s", "s", " ", "F", "o", "o", " ", "{">>, <<"c", "a", "l", "c", "u", "l", "a", "t", "e", "(", ")">> } }

CapLines == { a \o d : a \in CapPrefixes, d \in { <<"s", "t", "a", "t", "i", "c", " ", "x">>, <<"p", "u", "b", "l", "i", "c", " ", "v", "o", "i", "d", " ", "f", "o", "o", "(", ")">> } }

MalformedLines == Strings({"@", "a", " ", "(", ")"}, MaxLineLen)

StripInputs == MalformedLines \cup AnnotatedLines \cup CapLines

\* scope keywords as a configuration may list them, the empty one included
ScopeUniverse == { <<"P", "u", "b", "l", "i", "c">>, PRIVATE, TEST_METHOD, <<"s", "t", "a", "t", "i", "c">>, <<>> }

ScopeConfigs == UNION {[1..k -> ScopeUniverse] : k \in 0..MaxScopes}

\* the configurations shouldSkipLine is called under
SkipScopeConfigs == UNION {[1..k -> { <<"p", "u", "b", "l", "i", "c">>, <<"G", "l", "o", "b", "a", "l">>, PRIVATE }] : k \in 0..MaxScopes}

ClassModels == { NoModel, ClassModel(<<"O", "u", "t", "e", "r", ".", "F", "o", "o">>, FALSE), ClassModel(<<"B", "a", "r">>, TRUE) }

WordInputs == Strings({"a", "b", " "}, MaxWordLen) \cup { <<"i", "n", "t", " ", " ", "c", "o", "u", "n", "t", " ", "=", " ", "5", ";">> }

-----------------------------------------------------------------------------------------------------------------------------------------------------
(* The calls *)

\* a call is entered with its arguments; ApexDoc.config.scope is set by
\* the caller before a line is classified
Init ==
    /\ pc = "call"
    /\ result = <<>>
    /\ \/ /\ op = "stripAnnotations"
          /\ line \in StripInputs
          /\ idx = 0 /\ scope = <<>> /\ cModel = NoModel
       \/ /\ op = "isEnum"
          /\ line \in AnnotatedLines
          /\ idx = 0 /\ scope = <<>> /\ cModel = NoModel
       \/ /\ op = "isClassOrInterface"
          /\ line \in AnnotatedLines
          /\ idx = 0 /\ scope = <<>> /\ cModel = NoModel
       \/ /\ op = "getScope"
          /\ line \in AnnotatedLines \cup CapLines
          /\ scope \in ScopeConfigs
          /\ idx = 0 /\ cModel = NoModel
       \/ /\ op = "shouldSkipLine"
          /\ line \in DeclarationLines
          /\ scope \in SkipScopeConfigs
          /\ cModel \in ClassModels
          /\ idx = 0
       \/ /\ op = "previousWord"
          /\ line \in WordInputs
          /\ idx \in -1..(Len(line) + 1)
          /\ scope = <<>> /\ cModel = NoModel

\* each call runs to its return and leaves its arguments as they are
CallStripAnnotations ==
    /\ pc = "call"
    /\ op = "stripAnnotations"
    /\ pc' = "done"
    /\ result' = stripAnnotations(line)
    /\ UNCHANGED <<op, line, idx, scope, cModel>>

CallIsEnum ==
    /\ pc = "call"
    /\ op = "isEnum"
    /\ pc' = "done"
    /\ result' = isEnum(line)
    /\ UNCHANGED <<op, line, idx, scope, cModel>>

CallIsClassOrInterface ==
    /\ pc = "call"
    /\ op = "isClassOrInterface"
    /\ pc' = "done"
    /\ result' = isClassOrInterface(line)
    /\ UNCHANGED <<op, line, idx, scope, cModel>>

CallGetScope ==
    /\ pc = "call"
    /\ op = "getScope"
    /\ pc' = "done"
    /\ result' = getScope(line, scope)
    /\ UNCHANGED <<op, line, idx, scope, cModel>>

CallShouldSkipLine ==
    /\ pc = "call"
    /\ op = "shouldSkipLine"
    /\ pc' = "done"
    /\ result' = shouldSkipLine(line, cModel, scope)
    /\ UNCHANGED <<op, line, idx, scope, cModel>>

CallPreviousWord ==
    /\ pc = "call"
    /\ op = "previousWord"
    /\ pc' = "done"
    /\ result' = previousWord(line, idx)
    /\ UNCHANGED <<op, line, idx, scope, cModel>>

Next ==
    \/ CallStripAnnotations
    \/ CallIsEnum
    \/ CallIsClassOrInterface
    \/ CallGetScope
    \/ CallShouldSkipLine
    \/ CallPreviousWord

Spec == Init /\ [][Next]_vars

-----------------------------------------------------------------------------
(* Notions the properties are stated with *)

Returned(f) == pc = "done" /\ op = f

\* the line as getScope holds it in the k-th iteration of its loop
\* (k >= 1): normalized once per iteration so far
RECURSIVE NormalizedAt(_, _)
NormalizedAt(l, k) == IF k <= 1 THEN normalize(l) ELSE normalize(NormalizedAt(l, k - 1))

\* keyword kw stands at the start of normalized line n followed by a
\* space, or is 'testmethod' on a line starting 'static testmethod '
ExplicitMatch(n, kw) ==
    \/ Len(n) > Len(kw) /\ SubSeq(n, 1, Len(kw)) = toLowerCase(kw) /\ n[Len(kw) + 1] = " "
    \/ toLowerCase(kw) = <<"t", "e", "s", "t", "m", "e", "t", "h", "o", "d">> /\ startsWith(n, <<"s", "t", "a", "t", "i", "c", " ", "t", "e", "s", "t", "m", "e", "t", "h", "o", "d", " ">>)

\* the configured keywords (positions in the configuration) that
\* explicitly match the line
ExplicitMatches(l, config) ==
    {k \in 1..Len(config) : ExplicitMatch(NormalizedAt(l, k), config[k])}

\* the line the implicit-private rules look at
FallbackLine(l, config) == NormalizedAt(l, Len(config))

Contains(l, c) == \E i \in 1..Len(l) : l[i] = c

\* rule (a): a static member that is not a test method
RuleStatic(n) == startsWith(n, <<"s", "t", "a", "t", "i", "c", " ">>) /\ ~includes(n, <<" ", "t", "e", "s", "t", "m", "e", "t", "h", "o", "d", " ">>)

\* rule (b): a modifier or primitive return type, a space, and a '(' somewhere
RuleKeyword(n) ==
    /\ \E kw \in { <<"a", "b", "s", "t", "r", "a", "c", "t">>, <<"f", "i", "n", "a", "l">>, <<"v", "i", "r", "t", "u", "a", "l">>, <<"o", "v", "e", "r", "r", "i", "d", "e">>, <<"v", "o", "i", "d">>, <<"b", "l", "o", "b">>,
                    <<"b", "o", "o", "l", "e", "a", "n">>, <<"d", "a", "t", "e">>, <<"d", "a", "t", "e", "t", "i", "m", "e">>, <<"d", "e", "c", "i", "m", "a", "l">>, <<"d", "o", "u", "b", "l", "e">>, <<"i", "d">>,
                    <<"i", "n", "t", "e", "g", "e", "r">>, <<"l", "o", "n", "g">>, <<"o", "b", "j", "e", "c", "t">>, <<"s", "t", "r", "i", "n", "g">>, <<"t", "i", "m", "e">> } :
           startsWith(n, kw \o <<" ">>)
    /\ Contains(n, "(")

\* rule (b2): list<...>, set<...> or map<...>, white space, and a '(' somewhere
RuleCollection(n) ==
    /\ \E c \in { <<"l", "i", "s", "t">>, <<"s", "e", "t">>, <<"m", "a", "p">> } :
           /\ startsWith(n, c \o <<"<">>)
           /\ \E j \in 1..Len(n) :
                  /\ j >= Len(c) + 3
                  /\ n[j] = ">"
                  /\ j < Len(n)
                  /\ IsSpace(n[j + 1])
    /\ Contains(n, "(")

\* the simple name of a class: what follows its last dot
SimpleName(name) ==
    LET dots == {i \in 1..Len(name) : name[i] = "."}
    IN  IF dots = {} THEN name
        ELSE SubSeq(name, (CHOOSE d \in dots : \A e \in dots : e <= d) + 1, Len(name))

\* the lowercased line starts with 'enum ', 'class ' or 'interface '
StartsDeclaration(l) ==
    \E kw \in { <<"e", "n", "u", "m", " ">>, <<"c", "l", "a", "s", "s", " ">>, <<"i", "n", "t", "e", "r", "f", "a", "c", "e", " ">> } : startsWith(toLowerCase(l), kw)

\* the line with the annotations that stand at its start removed, white
\* space around them included; a line without leading annotation is itself
RECURSIVE WithoutLeadingAnnotations(_)
WithoutLeadingAnnotations(l) ==
    LET t == SubSeq(l, RunEnd(l, 1, "s"), Len(l))
    IN  IF AnnotationAt(t, 1)
        THEN LET rest == SubSeq(t, AnnotationEnd(t, 1), Len(t))
             IN  WithoutLeadingAnnotations(SubSeq(rest, RunEnd(rest, 1, "s"), Len(rest)))
        ELSE l

\* the word before 0-based index i of str: the non-space run that ends at
\* the last non-space character before i
WordBefore(str, i) ==
    LET ends == {p \in 1..Len(str) : p <= i /\ str[p] # " "}
    IN  IF ends = {} THEN <<>>
        ELSE LET e == CHOOSE p \in ends : \A q \in ends : q <= p
                 b == CHOOSE p \in 1..e :
                          /\ \A q \in p..e : str[q] # " "
                          /\ p = 1 \/ str[p - 1] = " "
             IN  SubSeq(str, b, e)

-----------------------------------------------------------------------------
(* Properties *)

\* C1 as stated: with no class context, shouldSkipLine keeps every line
\* for which isClassOrInterface or isEnum is true, whatever the scopes
C1_AsStated ==
    (Returned("shouldSkipLine") /\ ~cModel.present
        /\ (isClassOrInterface(line) \/ isEnum(line)))
    => result = FALSE

\* C1 amended: with no class context, shouldSkipLine keeps every class,
\* interface or enum line that starts (lowercased) with 'class ',
\* 'interface ' or 'enum ', or whose scope getScope resolves; the line
\* "global class Foo {" is kept exactly when 'global' is configured
C1_DeclarationKept ==
    (Returned("shouldSkipLine") /\ ~cModel.present
        /\ (isClassOrInterface(line) \/ isEnum(line)))
    => /\ (StartsDeclaration(line) \/ getScope(line, scope).defined) => result = FALSE
       /\ line = <<"g", "l", "o", "b", "a", "l", " ", "c", "l", "a", "s", "s", " ", "F", "o", "o", " ", "{">>
            => (result = FALSE <=> \E k \in 1..Len(scope) : toLowerCase(scope[k]) = <<"g", "l", "o", "b", "a", "l">>)

\* a class header without modifier is kept although no scope matches it
C1_Witness ==
    /\ Returned("shouldSkipLine")
    /\ ~cModel.present
    /\ isClassOrInterface(line)
    /\ StartsDeclaration(line)
    /\ ~getScope(line, scope).defined
    /\ result = FALSE

\* C2: shouldSkipLine returns false exactly when getScope matches, or the
\* lowercased line starts with 'enum ', 'class ' or 'interface ', or a
\* class context is given and the line has '<simple class name> (', or a
\* class context is given, is an interface and the line contains '(';
\* without class context the last two never apply
C2_KeptExactlyWhen ==
    Returned("shouldSkipLine")
    => (result = FALSE <=>
          \/ getScope(line, scope).defined
          \/ StartsDeclaration(line)
          \/ cModel.present /\ ConstructorPattern(line, SimpleName(cModel.name))
          \/ cModel.present /\ cModel.isInterface /\ Contains(line, "("))

\* a constructor of an inner class, kept by the constructor rule alone
C2_Witness ==
    /\ Returned("shouldSkipLine")
    /\ cModel.present
    /\ Contains(cModel.name, ".")
    /\ ConstructorPattern(line, SimpleName(cModel.name))
    /\ ~cModel.isInterface
    /\ ~getScope(line, scope).defined
    /\ ~StartsDeclaration(line)
    /\ result = FALSE

\* C3: when configured keywords stand at the start of the normalized line
\* followed by a space (or 'testmethod' on a 'static testmethod ' line),
\* getScope returns the first of them in configuration order; a keyword
\* that is only a prefix of the line's first word is never the result
C3_ExplicitFirstAnchored ==
    Returned("getScope")
    => LET n == normalize(line)
           M == {k \in 1..Len(scope) : ExplicitMatch(n, scope[k])}
       IN  /\ M # {} =>
                result = Some(toLowerCase(scope[CHOOSE k \in M : \A j \in M : k <= j]))
           /\ \A k \in 1..Len(scope) :
                (/\ startsWith(n, toLowerCase(scope[k]))
                 /\ Len(n) > Len(scope[k])
                 /\ IsWordChar(n[Len(scope[k]) + 1]))
                => result # Some(toLowerCase(scope[k]))

\* two different configured keywords match the line and the first wins
C3_Witness ==
    /\ Returned("getScope")
    /\ Len(scope) = 2
    /\ toLowerCase(scope[1]) # toLowerCase(scope[2])
    /\ ExplicitMatch(normalize(line), scope[1])
    /\ ExplicitMatch(normalize(line), scope[2])
    /\ result = Some(toLowerCase(scope[1]))

\* C4: a result of getScope is a configured keyword, lowercased, and not
\* the empty string; when 'private' is not configured and no configured
\* keyword matches explicitly, the result is no-match
C4_ResultConfigured ==
    Returned("getScope")
    => /\ result.defined =>
            /\ result.value # <<>>
            /\ \E k \in 1..Len(scope) : result.value = toLowerCase(scope[k])
       /\ ((\A k \in 1..Len(scope) : scope[k] # <<"p", "r", "i", "v", "a", "t", "e">>)
              /\ ExplicitMatches(line, scope) = {})
            => result = Undefined

\* a static member, with scopes configured but not 'private': no match
C4_Witness ==
    /\ Returned("getScope")
    /\ scope # <<>>
    /\ \A k \in 1..Len(scope) : scope[k] # <<"p", "r", "i", "v", "a", "t", "e">>
    /\ ExplicitMatches(line, scope) = {}
    /\ RuleStatic(FallbackLine(line, scope))
    /\ result = Undefined

\* C5 as stated: stripAnnotations is idempotent on every line
C5_Idempotent ==
    Returned("stripAnnotations") => stripAnnotations(result) = result

\* C6 as stated: stripAnnotations removes only annotations at the start
\* of the line: a line that does not start with '@' is returned unchanged,
\* and on a line whose leading '@' is not followed by an identifier no
\* token is removed (the line comes back, at most trimmed)
C6_OnlyLeadingRemoved ==
    Returned("stripAnnotations")
    => /\ ~startsWith(trim(line), <<"@">>) => result = line
       /\ (startsWith(trim(line), <<"@">>) /\ ~AnnotationAt(trim(line), 1))
            => result \in {line, trim(line)}

\* C7 as stated: isEnum is true exactly when the line without its
\* leading annotations starts with an optional global, public or private
\* and white space, then 'enum' as a whole word
C7_EnumAfterAnnotations ==
    Returned("isEnum") => (result = TRUE <=> EnumPattern(WithoutLeadingAnnotations(line)))

\* C8 as stated: previousWord("int  count = 5;", 9) is "count" and
\* previousWord("", 0) is ""
C8_AsStated ==
    /\ (Returned("previousWord") /\ line = <<"i", "n", "t", " ", " ", "c", "o", "u", "n", "t", " ", "=", " ", "5", ";">> /\ idx = 9) => result = <<"c", "o", "u", "n", "t">>
    /\ (Returned("previousWord") /\ line = <<>> /\ idx = 0) => result = <<>>

\* C8 amended: previousWord("int  count = 5;", 9) is "coun", the part of
\* the word before the index; index 10, just after the last letter,
\* gives "count"; previousWord("", 0) is ""
C8_WordBeforeIndex ==
    /\ (Returned("previousWord") /\ line = <<"i", "n", "t", " ", " ", "c", "o", "u", "n", "t", " ", "=", " ", "5", ";">> /\ idx = 9) => result = <<"c", "o", "u", "n">>
    /\ (Returned("previousWord") /\ line = <<"i", "n", "t", " ", " ", "c", "o", "u", "n", "t", " ", "=", " ", "5", ";">> /\ idx = 10) => result = <<"c", "o", "u", "n", "t">>
    /\ (Returned("previousWord") /\ line = <<>> /\ idx = 0) => result = <<>>

\* the call previousWord("int  count = 5;", 9) has returned
C8_Witness ==
    /\ Returned("previousWord")
    /\ line = <<"i", "n", "t", " ", " ", "c", "o", "u", "n", "t", " ", "=", " ", "5", ";">>
    /\ idx = 9
    /\ result = <<"c", "o", "u", "n">>

\* C9 as stated: previousWord returns "" for an empty string, index zero
\* or an index at or beyond the length, and otherwise the whole run of
\* non-space characters that ends at the last non-space character before
\* the index; the result never contains a space
C9_WholeWord ==
    Returned("previousWord")
    => /\ result = IF line = <<>> \/ idx <= 0 \/ idx >= Len(line)
                   THEN <<>>
                   ELSE WordBefore(line, idx)
       /\ ~Contains(result, " ")

\* C10: with 'private' configured and no explicit match, getScope returns
\* 'private' exactly when the normalized line starts with 'static ' and
\* has no ' testmethod ', or starts with a fixed keyword and a space and
\* contains '(', or starts with list<...>, set<...> or map<...> and white
\* space and contains '('; with ['private'], 'void calculate()' gives
\* 'private' and 'void description' gives no-match
C10_ImplicitPrivate ==
    /\ (Returned("getScope")
          /\ (\E k \in 1..Len(scope) : scope[k] = <<"p", "r", "i", "v", "a", "t", "e">>)
          /\ ExplicitMatches(line, scope) = {})
       => LET n == FallbackLine(line, scope)
          IN  result = IF RuleStatic(n) \/ RuleKeyword(n) \/ RuleCollection(n)
                       THEN Some(<<"p", "r", "i", "v", "a", "t", "e">>)
                       ELSE Undefined
    /\ (Returned("getScope") /\ scope = << <<"p", "r", "i", "v", "a", "t", "e">> >> /\ line = <<"v", "o", "i", "d", " ", "c", "a", "l", "c", "u", "l", "a", "t", "e", "(", ")">>)
       => result = Some(<<"p", "r", "i", "v", "a", "t", "e">>)
    /\ (Returned("getScope") /\ scope = << <<"p", "r", "i", "v", "a", "t", "e">> >> /\ line = <<"v", "o", "i", "d", " ", "d", "e", "s", "c", "r", "i", "p", "t", "i", "o", "n">>)
       => result = Undefined

\* a method returning a collection is taken as private
C10_Witness ==
    /\ Returned("getScope")
    /\ \E k \in 1..Len(scope) : scope[k] = <<"p", "r", "i", "v", "a", "t", "e">>
    /\ ExplicitMatches(line, scope) = {}
    /\ RuleCollection(FallbackLine(line, scope))
    /\ ~RuleStatic(FallbackLine(line, scope))
    /\ ~RuleKeyword(FallbackLine(line, scope))
    /\ result = Some(<<"p", "r", "i", "v", "a", "t", "e">>)

====
